---- MODULE Spec2Model ----
(***************************************************************************)
(* The "Last Entries" refresh machinery of DeltaGreenUI                    *)
(* (scripts/ui-components.js): the static refresh state, loadLastEntries,  *)
(* its watchdog timeout, _finishLoading, forceDisplayLastEntries, the      *)
(* recurring refresh interval and the handlers that show and hide the      *)
(* panel.                                                                  *)
(*                                                                         *)
(* Time is in milliseconds on a 100 ms grid and is kept relative to the    *)
(* current instant: Date.now() is Now (0) in every state, a timestamp is   *)
(* the (non-positive) offset of that instant from now, a timer holds the   *)
(* time left until it fires.  Tick lets 100 ms pass.  A timestamp older    *)
(* than DEBOUNCE_MS is kept as -DEBOUNCE_MS: the code only ever asks       *)
(* whether it is less than DEBOUNCE_MS old.                                *)
(*                                                                         *)
(* JavaScript runs one handler at a time to completion, so every action    *)
(* is one whole handler (event callback, timer callback, promise           *)
(* continuation).  The handlers' bodies are operators on a record of the   *)
(* mutable state, so that a handler can call another.                      *)
(***************************************************************************)
EXTENDS Integers, Sequences, FiniteSets, TLC

\* ------------------------------------------------------------ constants
DEBOUNCE_MS == 300
WATCHDOG_MS == 3000
NORMAL_MS == 500
DEGRADED_MS == 2000
ERROR_THRESHOLD == 3
MAX_ENTRIES == 3

\* ------------------------------------------------------------ bounds
\* consecutiveErrors is not allowed to grow beyond MaxErrors.
MaxErrors == 4
\* At most MaxGoBack GO BACK buttons in the document.
MaxGoBack == 1

\* The ids of the actors of the model, as sequences of characters.
ActorIds == {<<"a", "1">>}

\* An actor: its id, its name and its flags surname, firstName and
\* middleName ("" when the flag is not set).
Actor(id, name, surname, firstName, middleName) ==
  [id |-> id, name |-> name, surname |-> surname, firstName |-> firstName,
   middleName |-> middleName]

\* The actors that are created, updated and deleted: no flag is set.
ActorPool == {Actor(id, "Agent", "", "", "") : id \in ActorIds}

\* The ids of the actors whose order is examined: 'actor-9', 'actor-123',
\* 'actor-45', two ids that hold the digits 12, two ids without a digit.
OrderIds ==
  {<<"a", "9">>, <<"a", "1", "2", "3">>, <<"a", "4", "5">>,
   <<"1", "2">>, <<"b", "1", "c", "2">>, <<"x">>, <<"y">>}

\* At most MaxFolder of them are in the folder PC Records.
MaxFolder == 4

\* At most MaxPush entries are pushed to MailSystem.messages between two
\* loadMessages, and at most MaxNew chat messages created in a session.
MaxPush == 2
MaxNew == 2

\* Ids that hold 1, 2, 3, 4 and 5.
CountIds == {<<"1">>, <<"2">>, <<"3">>, <<"4">>, <<"5">>}

\* One actor for every combination of the flags surname, firstName and
\* middleName, set or not; 'UNKNOWN' is a surname like another.
FlagPool ==
  {Actor(<<"f", "7">>, "Agent", sn, fn, mn) :
     sn \in {"", "SMITH", "UNKNOWN"}, fn \in {"", "JOHN"}, mn \in {"", "Q"}}

Null == 0
Now == 0

VARIABLES
  isLoadingEntries,    \* static isLoadingEntries
  lastSuccessfulLoad,  \* static lastSuccessfulLoad, as an offset from now
  consecutiveErrors,   \* static consecutiveErrors
  refreshIntervalId,   \* static refreshIntervalId (Null or a timer id)
  intervals,           \* the armed setInterval timers
  timeouts,            \* the pending loadTimeout timers (watchdogs)
  listExists,          \* #dg-last-entries-list is in the document
  list,                \* the rows (li) of #dg-last-entries-list
  container,           \* #dg-crt-container: "none", "hidden" or "visible"
  interfaceActive,     \* the user flag interfaceActive
  isGM,                \* game.user.isGM
  actors,              \* the actors of the folder "PC Records", in game.actors
                       \* order; none when there is no such folder
  goBackButtons,       \* number of #dg-go-back-button elements
  readyPc,             \* progress of onReady
  renderPc,            \* progress of the renderInterface call in flight
  renderCaller,        \* who called it
  sourceUp,            \* the data source and the renderer fail no more
  inFlightFor,         \* history: for how long isLoadingEntries has been true
  cadenceBefore,       \* history: the ms of the timer refreshIntervalId named
                       \* before the last handler (0: none)
  lastEvent,           \* history: the handler that ran last
  loads,               \* history: outcome of each loadLastEntries call of it
  hostMessages,        \* number of messages of game.messages.contents
  messages,            \* static MailSystem.messages
  pushed,              \* history: entries pushed since the last loadMessages
  mailEvent,           \* history: the chat hook or mail handler that ran last
  mailCalls,           \* history: the MailSystem methods it called
  chatResult           \* history: how it returned

vars == <<isLoadingEntries, lastSuccessfulLoad, consecutiveErrors,
          refreshIntervalId, intervals, timeouts, listExists, list, container,
          interfaceActive, isGM, actors, goBackButtons, readyPc,
          renderPc, renderCaller, sourceUp, inFlightFor, cadenceBefore,
          lastEvent, loads, hostMessages, messages, pushed,
          mailEvent, mailCalls, chatResult>>

\* The state of the mail system, and what the refresh machinery owns.
mailVars == <<hostMessages, messages, pushed>>

panelVars == <<isLoadingEntries, lastSuccessfulLoad, consecutiveErrors,
               refreshIntervalId, intervals, timeouts, listExists, list,
               container, interfaceActive, isGM, actors, goBackButtons,
               readyPc, renderPc, renderCaller, sourceUp, inFlightFor,
               cadenceBefore, lastEvent, loads>>

\* No chat hook and no mail handler has run since.
NoMailEvent ==
  /\ mailEvent' = "none"
  /\ mailCalls' = <<>>
  /\ chatResult' = "none"

\* ------------------------------------------------------------ rows
\* A row of the list: its kind, its data-actor-id and its text, the text as
\* the sequence of the pieces the template literal joins.
NoEntriesRow ==
  [kind |-> "noentries", id |-> <<>>, label |-> <<"No recent entries found">>,
   handlers |-> 0]
ErrorRow ==
  [kind |-> "error", id |-> <<>>, label |-> <<"Error loading entries">>,
   handlers |-> 0]

\* The label of a row with the actor's name whenever the surname is not set.
DisplayLabelBySurname(a) ==
  IF a.surname = "" THEN <<a.name>>
  ELSE <<a.surname, " - ", a.firstName, " ", a.middleName>>

\* The text _generateActorsHTML gives the row of actor a.
DisplayLabel(a) ==
  LET firstName == a.firstName
      reference == IF a.surname = "" THEN "UNKNOWN" ELSE a.surname
      middleName == a.middleName
  IN IF firstName = "" /\ reference = "UNKNOWN"
     THEN <<a.name>>
     ELSE <<reference, " - ", firstName, " ", middleName>>

\* A row (li) of the list: its kind, its data-actor-id, its text and the
\* number of click handlers bound to it.
EntryRow(a) ==
  [kind |-> "entry", id |-> a.id, label |-> DisplayLabel(a), handlers |-> 0]

\* What can go wrong in one handler:
\*   "none"        nothing
\*   "data"        the folder lookup throws (before the list is cleared)
\*   "render"      writing the rows throws (after the list is cleared)
\*   "placeholder" writing the rows throws, and so does writing the error row
Faults == {"none", "data", "render", "placeholder"}

\* The faults the catch block of loadLastEntries handles.
SoftFaults == {"none", "data", "render"}


\* ------------------------------------------------------------ state record
Cur ==
  [isLoadingEntries |-> isLoadingEntries,
   lastSuccessfulLoad |-> lastSuccessfulLoad,
   consecutiveErrors |-> consecutiveErrors,
   refreshIntervalId |-> refreshIntervalId,
   intervals |-> intervals,
   timeouts |-> timeouts,
   listExists |-> listExists,
   list |-> list,
   container |-> container,
   interfaceActive |-> interfaceActive,
   goBackButtons |-> goBackButtons,
   actors |-> actors,
   loads |-> <<>>,
   threw |-> FALSE]

\* The ms of the timer refreshIntervalId names in s; 0 when there is none.
CadenceOf(s) ==
  IF \E t \in s.intervals : t.id = s.refreshIntervalId
  THEN (CHOOSE t \in s.intervals : t.id = s.refreshIntervalId).ms
  ELSE 0

Cadence == CadenceOf(Cur)

\* The handler named ev ends in state s.
Commit(s, ev) ==
  /\ s.consecutiveErrors <= MaxErrors
  /\ s.goBackButtons <= MaxGoBack
  /\ isLoadingEntries' = s.isLoadingEntries
  /\ lastSuccessfulLoad' = s.lastSuccessfulLoad
  /\ consecutiveErrors' = s.consecutiveErrors
  /\ refreshIntervalId' = s.refreshIntervalId
  /\ intervals' = s.intervals
  /\ timeouts' = s.timeouts
  /\ listExists' = s.listExists
  /\ list' = s.list
  /\ container' = s.container
  /\ interfaceActive' = s.interfaceActive
  /\ goBackButtons' = s.goBackButtons
  /\ actors' = s.actors
  /\ loads' = s.loads
  /\ sourceUp' = sourceUp
  /\ inFlightFor' = IF s.isLoadingEntries /\ isLoadingEntries THEN inFlightFor ELSE 0
  /\ cadenceBefore' = Cadence
  /\ lastEvent' = ev
  /\ NoMailEvent
  /\ UNCHANGED mailVars

\* ------------------------------------------------------------ timers
FreshId(used) == CHOOSE i \in 1..(Cardinality(used) + 1) : i \notin used

NewIntervalId(s) == FreshId({t.id : t \in s.intervals})

\* setInterval(callback, ms); full: the callback also calls
\* forceDisplayLastEntries.
SetInterval(s, id, ms, full) ==
  [s EXCEPT !.intervals = @ \cup {[id |-> id, ms |-> ms, left |-> ms, full |-> full]}]

ClearInterval(s, id) ==
  [s EXCEPT !.intervals = {t \in @ : t.id # id}]

NewTimeoutId(s) == FreshId({t.id : t \in s.timeouts})

SetTimeout(s, id, ms) ==
  [s EXCEPT !.timeouts = @ \cup {[id |-> id, left |-> ms]}]

ClearTimeout(s, id) ==
  [s EXCEPT !.timeouts = {t \in @ : t.id # id}]

\* ------------------------------------------------------------ data source
Digits == {"0", "1", "2", "3", "4", "5", "6", "7", "8", "9"}

DigitValue(c) ==
  CASE c = "0" -> 0 [] c = "1" -> 1 [] c = "2" -> 2 [] c = "3" -> 3
    [] c = "4" -> 4 [] c = "5" -> 5 [] c = "6" -> 6 [] c = "7" -> 7
    [] c = "8" -> 8 [] c = "9" -> 9

\* id.replace(/[^0-9]/g, '')
OnlyDigits(id) == SelectSeq(id, LAMBDA c : c \in Digits)

RECURSIVE ParseInt(_)
\* parseInt of a string of digits; '0' stands in for the empty string.
ParseInt(ds) ==
  IF ds = <<>> THEN 0
  ELSE 10 * ParseInt(SubSeq(ds, 1, Len(ds) - 1)) + DigitValue(ds[Len(ds)])

IdNum(id) == ParseInt(OnlyDigits(id))

\* Array.prototype.sort that puts an element before its equals.
RECURSIVE InsertDescUnstable(_, _)
InsertDescUnstable(sorted, a) ==
  IF sorted = <<>> THEN <<a>>
  ELSE IF IdNum(Head(sorted).id) > IdNum(a.id)
       THEN <<Head(sorted)>> \o InsertDescUnstable(Tail(sorted), a)
       ELSE <<a>> \o sorted

\* Array.prototype.sort with the comparator bNum - aNum: descending by IdNum,
\* equal elements in their original order (the sort is stable).
RECURSIVE InsertDesc(_, _)
InsertDesc(sorted, a) ==
  IF sorted = <<>> THEN <<a>>
  ELSE IF IdNum(Head(sorted).id) >= IdNum(a.id)
       THEN <<Head(sorted)>> \o InsertDesc(Tail(sorted), a)
       ELSE <<a>> \o sorted

RECURSIVE SortDesc(_)
SortDesc(as) ==
  IF as = <<>> THEN <<>>
  ELSE InsertDesc(SortDesc(SubSeq(as, 1, Len(as) - 1)), as[Len(as)])

Min(a, b) == IF a <= b THEN a ELSE b
Max(a, b) == IF a >= b THEN a ELSE b

\* _getRecentActors: the actors of the folder, sorted, the first three.
GetRecentActors(as) ==
  LET sortedActors == SortDesc(as)
  IN SubSeq(sortedActors, 1, Min(MAX_ENTRIES, Len(sortedActors)))

\* _generateActorsHTML: one row per actor.
GenerateActorsHTML(as) == [i \in 1..Len(as) |-> EntryRow(as[i])]

\* _addActorClickHandlers: one click handler more on every row that has a
\* data-actor-id.
AddActorClickHandlers(rows) ==
  [k \in DOMAIN rows |->
     IF rows[k].kind = "entry" THEN [rows[k] EXCEPT !.handlers = @ + 1]
     ELSE rows[k]]

RowIds(rows) == [k \in DOMAIN rows |-> rows[k].id]

\* !folder || !_hasActorsInFolder(folder)
NoActors(s) == s.actors = <<>>

\* ------------------------------------------------------------ load cycle
\* _finishLoading without the restart of the interval.
FinishLoadingNoRestore(s, loadTimeout, success) ==
  LET s1 == [ClearTimeout(s, loadTimeout) EXCEPT !.isLoadingEntries = FALSE]
  IN IF success
     THEN [s1 EXCEPT !.lastSuccessfulLoad = Now, !.consecutiveErrors = 0]
     ELSE [s1 EXCEPT !.consecutiveErrors = @ + 1]

\* _finishLoading restarting the interval only if it was slowed down.
FinishLoadingRestoreIfDegraded(s, loadTimeout, success) ==
  LET s1 == [ClearTimeout(s, loadTimeout) EXCEPT !.isLoadingEntries = FALSE]
  IN IF success
     THEN LET s2 == [s1 EXCEPT !.lastSuccessfulLoad = Now,
                               !.consecutiveErrors = 0]
          IN IF s2.refreshIntervalId # Null /\ CadenceOf(s2) = DEGRADED_MS
             THEN LET s3 == ClearInterval(s2, s2.refreshIntervalId)
                      id == NewIntervalId(s3)
                  IN [SetInterval(s3, id, NORMAL_MS, FALSE)
                        EXCEPT !.refreshIntervalId = id]
             ELSE s2
     ELSE [s1 EXCEPT !.consecutiveErrors = @ + 1]

\* _finishLoading without the reset of consecutiveErrors.
FinishLoadingNoReset(s, loadTimeout, success) ==
  LET s1 == [ClearTimeout(s, loadTimeout) EXCEPT !.isLoadingEntries = FALSE]
  IN IF success
     THEN LET s2 == [s1 EXCEPT !.lastSuccessfulLoad = Now]
          IN IF s2.refreshIntervalId # Null /\ s2.consecutiveErrors = 0
             THEN LET s3 == ClearInterval(s2, s2.refreshIntervalId)
                      id == NewIntervalId(s3)
                  IN [SetInterval(s3, id, NORMAL_MS, FALSE)
                        EXCEPT !.refreshIntervalId = id]
             ELSE s2
     ELSE [s1 EXCEPT !.consecutiveErrors = @ + 1]

\* _finishLoading(loadTimeout, success)
FinishLoading(s, loadTimeout, success) ==
  LET s1 == [ClearTimeout(s, loadTimeout) EXCEPT !.isLoadingEntries = FALSE]
  IN IF success
     THEN LET s2 == [s1 EXCEPT !.lastSuccessfulLoad = Now,
                               !.consecutiveErrors = 0]
          IN IF s2.refreshIntervalId # Null /\ s2.consecutiveErrors = 0
             THEN LET s3 == ClearInterval(s2, s2.refreshIntervalId)
                      id == NewIntervalId(s3)
                  IN [SetInterval(s3, id, NORMAL_MS, FALSE)
                        EXCEPT !.refreshIntervalId = id]
             ELSE s2
     ELSE [s1 EXCEPT !.consecutiveErrors = @ + 1]

Outcome(s, o) == [s EXCEPT !.loads = Append(@, o)]

\* The catch block of loadLastEntries; f is what goes wrong in this handler.
LoadCatch(s, loadTimeout, f) ==
  IF f = "placeholder"
  THEN \* $list.empty() has run, append throws: the error leaves loadLastEntries
       Outcome([s EXCEPT !.list = <<>>, !.threw = TRUE], "threw")
  ELSE LET s1 == IF s.listExists THEN [s EXCEPT !.list = <<ErrorRow>>] ELSE s
       IN Outcome(FinishLoading(s1, loadTimeout, FALSE), "failed")

\* The try block of loadLastEntries counting a missing list as a failure.
LoadTryNoListFails(s, loadTimeout, f) ==
  LET s1 == IF s.listExists THEN s
            ELSE IF s.container # "none"
                 THEN [s EXCEPT !.listExists = TRUE, !.list = <<>>]
                 ELSE s
  IN IF ~s1.listExists
     THEN Outcome(FinishLoading(s1, loadTimeout, FALSE), "nolist")
     ELSE IF f = "data" THEN LoadCatch(s1, loadTimeout, f)
     ELSE LET s2 == [s1 EXCEPT !.list = <<>>]
          IN IF f \in {"render", "placeholder"}
             THEN LoadCatch(s2, loadTimeout, f)
             ELSE IF NoActors(s2)
             THEN Outcome(FinishLoading([s2 EXCEPT !.list = <<NoEntriesRow>>],
                                        loadTimeout, TRUE), "success")
             ELSE Outcome(FinishLoading(
                            [s2 EXCEPT !.list = AddActorClickHandlers(
                               GenerateActorsHTML(GetRecentActors(s2.actors)))],
                            loadTimeout, TRUE), "success")

\* The try block of loadLastEntries leaving isLoadingEntries set when there
\* is no list.
LoadTryNoListStuck(s, loadTimeout, f) ==
  LET s1 == IF s.listExists THEN s
            ELSE IF s.container # "none"
                 THEN [s EXCEPT !.listExists = TRUE, !.list = <<>>]
                 ELSE s
  IN IF ~s1.listExists
     THEN Outcome(ClearTimeout(s1, loadTimeout), "nolist")
     ELSE IF f = "data" THEN LoadCatch(s1, loadTimeout, f)
     ELSE LET s2 == [s1 EXCEPT !.list = <<>>]
          IN IF f \in {"render", "placeholder"}
             THEN LoadCatch(s2, loadTimeout, f)
             ELSE IF NoActors(s2)
             THEN Outcome(FinishLoading([s2 EXCEPT !.list = <<NoEntriesRow>>],
                                        loadTimeout, TRUE), "success")
             ELSE Outcome(FinishLoading(
                            [s2 EXCEPT !.list = AddActorClickHandlers(
                               GenerateActorsHTML(GetRecentActors(s2.actors)))],
                            loadTimeout, TRUE), "success")

\* The try block of loadLastEntries keeping the rows that are there when they
\* are the rows of the same actors.
LoadTryKeepRows(s, loadTimeout, f) ==
  LET s1 == IF s.listExists THEN s
            ELSE IF s.container # "none"
                 THEN [s EXCEPT !.listExists = TRUE, !.list = <<>>]
                 ELSE s
      rows == GenerateActorsHTML(GetRecentActors(s1.actors))
  IN IF ~s1.listExists
     THEN Outcome([ClearTimeout(s1, loadTimeout)
                     EXCEPT !.isLoadingEntries = FALSE], "nolist")
     ELSE IF f # "none" THEN LoadCatch(s1, loadTimeout, f)
     ELSE IF NoActors(s1)
     THEN Outcome(FinishLoading([s1 EXCEPT !.list = <<NoEntriesRow>>],
                                loadTimeout, TRUE), "success")
     ELSE Outcome(FinishLoading(
                    [s1 EXCEPT !.list = AddActorClickHandlers(
                       IF RowIds(@) = RowIds(rows) THEN @ ELSE rows)],
                    loadTimeout, TRUE), "success")

\* The try block of loadLastEntries appending to the rows that are there.
LoadTryAppend(s, loadTimeout, f) ==
  LET s1 == IF s.listExists THEN s
            ELSE IF s.container # "none"
                 THEN [s EXCEPT !.listExists = TRUE, !.list = <<>>]
                 ELSE s
  IN IF ~s1.listExists
     THEN Outcome([ClearTimeout(s1, loadTimeout)
                     EXCEPT !.isLoadingEntries = FALSE], "nolist")
     ELSE IF f # "none" THEN LoadCatch(s1, loadTimeout, f)
     ELSE IF NoActors(s1)
     THEN Outcome(FinishLoading([s1 EXCEPT !.list = @ \o <<NoEntriesRow>>],
                                loadTimeout, TRUE), "success")
     ELSE Outcome(FinishLoading(
                    [s1 EXCEPT !.list = AddActorClickHandlers(
                       @ \o GenerateActorsHTML(GetRecentActors(s1.actors)))],
                    loadTimeout, TRUE), "success")

\* The try block of loadLastEntries.
LoadTry(s, loadTimeout, f) ==
  LET \* the list, or _createEntriesList(): the section is in the container
      s1 == IF s.listExists THEN s
            ELSE IF s.container # "none"
                 THEN [s EXCEPT !.listExists = TRUE, !.list = <<>>]
                 ELSE s
  IN IF ~s1.listExists
     THEN Outcome([ClearTimeout(s1, loadTimeout)
                     EXCEPT !.isLoadingEntries = FALSE], "nolist")
     ELSE IF f = "data" THEN LoadCatch(s1, loadTimeout, f)
     ELSE LET s2 == [s1 EXCEPT !.list = <<>>]
          IN IF f \in {"render", "placeholder"}
             THEN LoadCatch(s2, loadTimeout, f)
             ELSE IF NoActors(s2)
             THEN Outcome(FinishLoading([s2 EXCEPT !.list = <<NoEntriesRow>>],
                                        loadTimeout, TRUE), "success")
             ELSE Outcome(FinishLoading(
                            [s2 EXCEPT !.list = AddActorClickHandlers(
                               GenerateActorsHTML(GetRecentActors(s2.actors)))],
                            loadTimeout, TRUE), "success")

\* loadLastEntries without the test of isLoadingEntries.
LoadLastEntriesNoGuard(s, f) ==
  IF Now - s.lastSuccessfulLoad < DEBOUNCE_MS THEN Outcome(s, "debounced")
  ELSE LET loadTimeout == NewTimeoutId(s)
           s1 == [SetTimeout(s, loadTimeout, WATCHDOG_MS)
                    EXCEPT !.isLoadingEntries = TRUE]
       IN LoadTry(s1, loadTimeout, f)

\* loadLastEntries()
LoadLastEntries(s, f) ==
  IF s.isLoadingEntries THEN Outcome(s, "busy")
  ELSE IF Now - s.lastSuccessfulLoad < DEBOUNCE_MS THEN Outcome(s, "debounced")
  ELSE LET loadTimeout == NewTimeoutId(s)
           s1 == [SetTimeout(s, loadTimeout, WATCHDOG_MS)
                    EXCEPT !.isLoadingEntries = TRUE]
       IN LoadTry(s1, loadTimeout, f)

\* The callback of loadTimeout slowing the interval one error early.
LoadTimeoutCallbackEarly(s) ==
  LET s1 == [s EXCEPT !.isLoadingEntries = FALSE, !.consecutiveErrors = @ + 1]
  IN IF s1.consecutiveErrors >= ERROR_THRESHOLD /\ s1.refreshIntervalId # Null
     THEN LET s2 == ClearInterval(s1, s1.refreshIntervalId)
              id == NewIntervalId(s2)
          IN [SetInterval(s2, id, DEGRADED_MS, FALSE)
                EXCEPT !.refreshIntervalId = id]
     ELSE s1

\* The callback of loadTimeout counting the cycle twice.
LoadTimeoutCallbackTwice(s) ==
  LET s1 == [s EXCEPT !.isLoadingEntries = FALSE, !.consecutiveErrors = @ + 2]
  IN IF s1.consecutiveErrors > ERROR_THRESHOLD /\ s1.refreshIntervalId # Null
     THEN LET s2 == ClearInterval(s1, s1.refreshIntervalId)
              id == NewIntervalId(s2)
          IN [SetInterval(s2, id, DEGRADED_MS, FALSE)
                EXCEPT !.refreshIntervalId = id]
     ELSE s1

\* The callback of loadTimeout with an interval of 1000 ms.
LoadTimeoutCallbackOtherDelay(s) ==
  LET s1 == [s EXCEPT !.isLoadingEntries = FALSE, !.consecutiveErrors = @ + 1]
  IN IF s1.consecutiveErrors > ERROR_THRESHOLD /\ s1.refreshIntervalId # Null
     THEN LET s2 == ClearInterval(s1, s1.refreshIntervalId)
              id == NewIntervalId(s2)
          IN [SetInterval(s2, id, 1000, FALSE) EXCEPT !.refreshIntervalId = id]
     ELSE s1

\* The callback of loadTimeout stopping the interval instead of slowing it.
LoadTimeoutCallbackStops(s) ==
  LET s1 == [s EXCEPT !.isLoadingEntries = FALSE, !.consecutiveErrors = @ + 1]
  IN IF s1.consecutiveErrors > ERROR_THRESHOLD /\ s1.refreshIntervalId # Null
     THEN [ClearInterval(s1, s1.refreshIntervalId)
             EXCEPT !.refreshIntervalId = Null]
     ELSE s1

\* The callback of loadTimeout without the test of refreshIntervalId.
LoadTimeoutCallbackNoCheck(s) ==
  LET s1 == [s EXCEPT !.isLoadingEntries = FALSE, !.consecutiveErrors = @ + 1]
  IN IF s1.consecutiveErrors > ERROR_THRESHOLD
     THEN LET s2 == ClearInterval(s1, s1.refreshIntervalId)
              id == NewIntervalId(s2)
          IN [SetInterval(s2, id, DEGRADED_MS, FALSE)
                EXCEPT !.refreshIntervalId = id]
     ELSE s1

\* The callback of loadTimeout.
LoadTimeoutCallback(s) ==
  LET s1 == [s EXCEPT !.isLoadingEntries = FALSE, !.consecutiveErrors = @ + 1]
  IN IF s1.consecutiveErrors > ERROR_THRESHOLD /\ s1.refreshIntervalId # Null
     THEN LET s2 == ClearInterval(s1, s1.refreshIntervalId)
              id == NewIntervalId(s2)
          IN [SetInterval(s2, id, DEGRADED_MS, FALSE)
                EXCEPT !.refreshIntervalId = id]
     ELSE s1

\* forceDisplayLastEntries without the test of the children of the list.
ForceDisplayLastEntriesAlways(s, f) ==
  IF ~s.interfaceActive THEN s
  ELSE IF s.container = "none" THEN s
  ELSE LET s1 == IF s.listExists THEN s
                 ELSE [s EXCEPT !.listExists = TRUE, !.list = <<>>]
       IN [LoadLastEntries(s1, f) EXCEPT !.threw = FALSE]

\* forceDisplayLastEntries(): every error is caught inside.
ForceDisplayLastEntries(s, f) ==
  IF ~s.interfaceActive THEN s
  ELSE IF s.container = "none" THEN s
  ELSE LET s1 == IF s.listExists THEN s
                 ELSE [s EXCEPT !.listExists = TRUE, !.list = <<>>]
       IN IF Len(s1.list) = 0
          THEN [LoadLastEntries(s1, f) EXCEPT !.threw = FALSE]
          ELSE s1

\* forceDisplayLastEntries() after a call of loadLastEntries: reached only
\* if that call threw nothing.
ThenForceDisplay(s, f) == IF s.threw THEN s ELSE ForceDisplayLastEntries(s, f)

\* The callback of a recurring interval without the test of the flag
\* 'interfaceActive'.
IntervalCallbackAlways(s, full, f) ==
  LET s1 == LoadLastEntries(s, f)
  IN IF full
     THEN ThenForceDisplay(s1, f)
     ELSE s1

\* The callback of a recurring interval starting a cycle beside the one in
\* flight.
IntervalCallbackNoGuard(s, full, f) ==
  IF ~s.interfaceActive THEN s
  ELSE LET s1 == LoadLastEntriesNoGuard(s, f)
       IN IF full
          THEN ThenForceDisplay(s1, f)
          ELSE s1

\* The callback of a recurring interval.
IntervalCallback(s, full, f) ==
  IF ~s.interfaceActive THEN s
  ELSE LET s1 == LoadLastEntries(s, f)
       IN IF full
          THEN ThenForceDisplay(s1, f)
          ELSE s1

\* ------------------------------------------------------------ panel
Show(s) == IF s.container = "none" THEN s ELSE [s EXCEPT !.container = "visible"]
Hide(s) == IF s.container = "none" THEN s ELSE [s EXCEPT !.container = "hidden"]

\* "Restart refresh interval" without the test of refreshIntervalId.
RestartIntervalNoGuard(s) ==
  LET id == NewIntervalId(s)
  IN [SetInterval(s, id, NORMAL_MS, TRUE) EXCEPT !.refreshIntervalId = id]

\* "Restart refresh interval" of openInterface and toggleInterface.
RestartInterval(s) ==
  IF s.refreshIntervalId = Null
  THEN LET id == NewIntervalId(s)
       IN [SetInterval(s, id, NORMAL_MS, TRUE) EXCEPT !.refreshIntervalId = id]
  ELSE s

\* "Stop refresh interval" without clearInterval.
StopIntervalNoClear(s) == [s EXCEPT !.refreshIntervalId = Null]

\* "Stop refresh interval" of toggleInterface and of the LOG OUT button.
StopInterval(s) ==
  IF s.refreshIntervalId # Null
  THEN [ClearInterval(s, s.refreshIntervalId) EXCEPT !.refreshIntervalId = Null]
  ELSE s

\* renderInterface from "Initial hiding" to its return; the result is the
\* state with threw set when renderInterface returns false.
RenderInterfaceTail(s, f) ==
  LET s1 == Hide(s)
      s2 == ForceDisplayLastEntries(s1, f)
      s3 == LoadLastEntries(s2, f)
  IN IF s3.threw THEN s3
     ELSE LET s4 == IF s3.refreshIntervalId # Null
                    THEN ClearInterval(s3, s3.refreshIntervalId) ELSE s3
              id == NewIntervalId(s4)
          IN [SetInterval(s4, id, NORMAL_MS, TRUE) EXCEPT !.refreshIntervalId = id]

\* What the caller c chained to renderInterface() with then().
RenderContinuation(s, c, f) ==
  LET s1 == [s EXCEPT !.threw = FALSE]
  IN IF c = "open"
     THEN ForceDisplayLastEntries([Show(s1) EXCEPT !.interfaceActive = TRUE], f)
     ELSE IF c = "toggle"
     THEN [Show(s1) EXCEPT !.interfaceActive = TRUE]
     ELSE s1

\* openInterface() when the container exists.
OpenExisting(s, f) ==
  IF s.container = "hidden"
  THEN RestartInterval(
         ForceDisplayLastEntries([Show(s) EXCEPT !.interfaceActive = TRUE], f))
  ELSE s

\* toggleInterface() when the container exists.
ToggleExisting(s, f) ==
  IF s.container = "visible"
  THEN StopInterval([Hide(s) EXCEPT !.interfaceActive = FALSE])
  ELSE RestartInterval(
         ForceDisplayLastEntries([Show(s) EXCEPT !.interfaceActive = TRUE], f))

\* The click handler of #dg-logout-button.
LogOutClick(s) == StopInterval([Hide(s) EXCEPT !.interfaceActive = FALSE])

\* The click handler of the menu item 'logout'.
MenuLogoutClick(s) == [Hide(s) EXCEPT !.interfaceActive = FALSE]

\* toggleToActiveScene(), sceneActive: game.scenes.active is set.
ToggleToActiveScene(s, sceneActive) ==
  IF ~sceneActive THEN s
  ELSE [Hide(s) EXCEPT !.goBackButtons = @ + 1]

\* The click handler of #dg-go-back-button.
GoBackClick(s) == [Show(s) EXCEPT !.goBackButtons = @ - 1]

\* ------------------------------------------------------------ actions
Capped(x) == Max(x - 100, 0 - DEBOUNCE_MS)

\* The sequences of distinct actors.
ActorSeqs ==
  UNION {{q \in [1..n -> ActorPool] :
              \A i, j \in 1..n : i # j => q[i].id # q[j].id}
           : n \in 0..Cardinality(ActorPool)}

\* An empty chat log, and a mail system no hook has called.
NoMail ==
  /\ hostMessages = 0
  /\ messages = <<>>
  /\ pushed = 0
  /\ mailEvent = "none"
  /\ mailCalls = <<>>
  /\ chatResult = "none"

Init ==
  /\ isLoadingEntries = FALSE
  /\ lastSuccessfulLoad = 0 - DEBOUNCE_MS
  /\ consecutiveErrors = 0
  /\ refreshIntervalId = Null
  /\ intervals = {}
  /\ timeouts = {}
  /\ listExists = FALSE
  /\ list = <<>>
  /\ container = "none"
  /\ interfaceActive \in BOOLEAN
  /\ isGM \in BOOLEAN
  /\ actors \in ActorSeqs
  /\ goBackButtons = 0
  /\ readyPc = "boot"
  /\ renderPc = "idle"
  /\ renderCaller = "ready"
  /\ sourceUp = FALSE
  /\ inFlightFor = 0
  /\ cadenceBefore = 0
  /\ lastEvent = "init"
  /\ loads = <<>>
  /\ NoMail

\* 100 ms pass; no timer is due.
Tick ==
  /\ \A t \in intervals \cup timeouts : t.left >= 100
  /\ intervals' = {[t EXCEPT !.left = @ - 100] : t \in intervals}
  /\ timeouts' = {[t EXCEPT !.left = @ - 100] : t \in timeouts}
  /\ lastSuccessfulLoad' = Capped(lastSuccessfulLoad)
  /\ inFlightFor' = IF isLoadingEntries
                    THEN Min(inFlightFor + 100, WATCHDOG_MS + 100) ELSE 0
  /\ cadenceBefore' = Cadence
  /\ lastEvent' = "tick"
  /\ loads' = <<>>
  /\ NoMailEvent
  /\ UNCHANGED mailVars
  /\ UNCHANGED <<isLoadingEntries, consecutiveErrors, refreshIntervalId,
                 listExists, list, container, interfaceActive, isGM, actors,
                 goBackButtons, readyPc, renderPc, renderCaller, sourceUp>>

\* The recurring interval t fires.
IntervalFire(F) ==
  \E t \in intervals, f \in F :
    /\ t.left = 0
    /\ LET s0 == [Cur EXCEPT !.intervals = (@ \ {t}) \cup {[t EXCEPT !.left = t.ms]}]
       IN Commit(IntervalCallback(s0, t.full, f), "interval")
    /\ UNCHANGED <<isGM, readyPc, renderPc, renderCaller>>

\* The watchdog t fires.
WatchdogFire ==
  \E t \in timeouts :
    /\ t.left = 0
    /\ Commit(LoadTimeoutCallback([Cur EXCEPT !.timeouts = @ \ {t}]), "watchdog")
    /\ UNCHANGED <<isGM, readyPc, renderPc, renderCaller>>

\* An actor is created, updated or deleted: the createActor, updateActor
\* and deleteActor hooks call loadLastEntries at once.
ActorCreated(F) ==
  \E a \in ActorPool, f \in F :
    /\ \A i \in 1..Len(actors) : actors[i].id # a.id
    /\ Commit(LoadLastEntries([Cur EXCEPT !.actors = Append(@, a)], f), "createActor")
    /\ UNCHANGED <<isGM, readyPc, renderPc, renderCaller>>

ActorUpdated(F) ==
  \E f \in F :
    /\ Commit(LoadLastEntries(Cur, f), "updateActor")
    /\ UNCHANGED <<isGM, readyPc, renderPc, renderCaller>>

ActorDeleted(F) ==
  \E i \in 1..Len(actors), f \in F :
    /\ Commit(LoadLastEntries(
                [Cur EXCEPT !.actors = SubSeq(@, 1, i - 1) \o SubSeq(@, i + 1, Len(@))],
                f), "deleteActor")
    /\ UNCHANGED <<isGM, readyPc, renderPc, renderCaller>>

\* The timeout the actor hooks set: loadLastEntries, then
\* forceDisplayLastEntries.
ActorHookLater(F) ==
  \E f \in F :
    /\ Commit(ThenForceDisplay(LoadLastEntries(Cur, f), f), "hookLater")
    /\ UNCHANGED <<isGM, readyPc, renderPc, renderCaller>>

\* A forceDisplayLastEntries call from a timeout (renderInterface, the login
\* animation).
ForceDisplayLater(F) ==
  \E f \in F :
    /\ Commit(ForceDisplayLastEntries(Cur, f), "forceDisplay")
    /\ UNCHANGED <<isGM, readyPc, renderPc, renderCaller>>

\* onReady, once createPCRecordsFolder has ended (created: without an
\* error): loadLastEntries, then renderInterface is called.
OnReady(F) ==
  \E f \in F, created \in BOOLEAN :
    /\ readyPc = "boot"
    /\ renderPc = "idle"
    /\ IF created
       THEN LET s == LoadLastEntries(Cur, f)
            IN /\ Commit(s, "onReady")
               /\ IF s.threw
                  THEN /\ readyPc' = "done"
                       /\ UNCHANGED <<renderPc, renderCaller>>
                  ELSE /\ readyPc' = "rendering"
                       /\ renderPc' = "template"
                       /\ renderCaller' = "ready"
       ELSE /\ Commit(Cur, "onReady")
            /\ readyPc' = "done"
            /\ UNCHANGED <<renderPc, renderCaller>>
    /\ UNCHANGED isGM

\* renderInterface after renderTemplate: the old container is removed, the
\* template appended; or renderTemplate throws and renderInterface returns
\* false.
RenderTemplate(F) ==
  \E ok \in BOOLEAN, vis \in {"hidden", "visible"}, hasList \in BOOLEAN,
     f \in F :
    /\ renderPc = "template"
    /\ IF ok
       THEN /\ Commit([Cur EXCEPT !.container = vis, !.listExists = hasList,
                                  !.list = <<>>], "renderTemplate")
            /\ renderPc' = "inject"
            /\ UNCHANGED readyPc
       ELSE /\ Commit(RenderContinuation(Cur, renderCaller, f), "renderFailed")
            /\ renderPc' = "idle"
            /\ readyPc' = IF renderCaller = "ready" THEN "done" ELSE readyPc
    /\ UNCHANGED <<isGM, renderCaller>>

\* renderInterface after the templates are injected, to its end, and what
\* the caller chained to it.
RenderFinish(F) ==
  \E f \in F :
    /\ renderPc = "inject"
    /\ LET s == RenderInterfaceTail(Cur, f)
       IN /\ Commit(RenderContinuation(s, renderCaller, f), "renderFinish")
          /\ readyPc' = IF renderCaller = "ready"
                        THEN (IF s.threw THEN "done" ELSE "activate")
                        ELSE readyPc
    /\ renderPc' = "idle"
    /\ UNCHANGED <<isGM, renderCaller>>

\* The timeout onReady sets after a successful render.
ReadyActivate(F) ==
  \E f \in F :
    /\ readyPc = "activate"
    /\ readyPc' = "done"
    /\ IF container = "none" THEN Commit(Cur, "readyActivate")
       ELSE IF isGM
       THEN Commit([Hide(Cur) EXCEPT !.interfaceActive = FALSE], "readyActivate")
       ELSE Commit(LoadLastEntries([Show(Cur) EXCEPT !.interfaceActive = TRUE], f),
                   "readyActivate")
    /\ UNCHANGED <<isGM, renderPc, renderCaller>>

\* openInterface() (the login button, the timeout of renderInterface) when
\* there is no container: renderInterface is called.
OpenInterfaceRender ==
  /\ container = "none"
  /\ renderPc = "idle"
  /\ renderPc' = "template"
  /\ renderCaller' = "open"
  /\ Commit(Cur, "openInterface")
  /\ UNCHANGED <<isGM, readyPc>>

\* openInterface() when the container exists.
OpenInterface(F) ==
  \E f \in F :
    /\ container # "none"
    /\ Commit(OpenExisting(Cur, f), "openInterface")
    /\ UNCHANGED <<isGM, readyPc, renderPc, renderCaller>>

\* toggleInterface() when there is no container: renderInterface is called.
ToggleInterfaceRender ==
  /\ container = "none"
  /\ renderPc = "idle"
  /\ renderPc' = "template"
  /\ renderCaller' = "toggle"
  /\ Commit(Cur, "toggleInterface")
  /\ UNCHANGED <<isGM, readyPc>>

\* toggleInterface() when the container exists.
ToggleInterface(F) ==
  \E f \in F :
    /\ container # "none"
    /\ Commit(ToggleExisting(Cur, f), "toggleInterface")
    /\ UNCHANGED <<isGM, readyPc, renderPc, renderCaller>>

\* A click on #dg-logout-button, which only a GM sees.
LogOutButton ==
  /\ container = "visible"
  /\ isGM
  /\ Commit(LogOutClick(Cur), "logOutButton")
  /\ UNCHANGED <<isGM, readyPc, renderPc, renderCaller>>

\* A click on the menu item 'logout'.
MenuLogout ==
  /\ container = "visible"
  /\ Commit(MenuLogoutClick(Cur), "menuLogout")
  /\ UNCHANGED <<isGM, readyPc, renderPc, renderCaller>>

\* A click on the menu item 'scene'.
MenuScene ==
  \E sceneActive \in BOOLEAN :
    /\ container = "visible"
    /\ Commit(ToggleToActiveScene(Cur, sceneActive), "menuScene")
    /\ UNCHANGED <<isGM, readyPc, renderPc, renderCaller>>

\* A click on #dg-go-back-button.
GoBack ==
  /\ goBackButtons > 0
  /\ Commit(GoBackClick(Cur), "goBack")
  /\ UNCHANGED <<isGM, readyPc, renderPc, renderCaller>>

\* From now on nothing fails in a load cycle (a watchdog that is pending
\* still fires).
SourceRecovers ==
  /\ ~sourceUp
  /\ isLoadingEntries => consecutiveErrors < MaxErrors
  /\ sourceUp' = TRUE
  /\ UNCHANGED <<isLoadingEntries, lastSuccessfulLoad, consecutiveErrors,
                 refreshIntervalId, intervals, timeouts, listExists, list,
                 container, interfaceActive, isGM, actors, goBackButtons,
                 readyPc, renderPc, renderCaller, inFlightFor, cadenceBefore,
                 lastEvent, loads, mailVars, mailEvent, mailCalls,
                 chatResult>>

Next ==
  \/ Tick
  \/ IntervalFire(Faults)
  \/ WatchdogFire
  \/ ActorCreated(Faults)
  \/ ActorUpdated(Faults)
  \/ ActorDeleted(Faults)
  \/ ActorHookLater(Faults)
  \/ ForceDisplayLater(Faults)
  \/ OnReady(Faults)
  \/ RenderTemplate(Faults)
  \/ RenderFinish(Faults)
  \/ ReadyActivate(Faults)
  \/ OpenInterface(Faults)
  \/ ToggleInterface(Faults)

\* The refresh machinery with every fault; the panel is rendered by onReady,
\* then opened and toggled.
Spec == Init /\ [][Next]_vars

PanelNext ==
  \/ Tick
  \/ IntervalFire(SoftFaults)
  \/ ActorCreated(SoftFaults)
  \/ ActorUpdated(SoftFaults)
  \/ ActorDeleted(SoftFaults)
  \/ ActorHookLater(SoftFaults)
  \/ ForceDisplayLater(SoftFaults)
  \/ OnReady(SoftFaults)
  \/ RenderTemplate(SoftFaults)
  \/ RenderFinish(SoftFaults)
  \/ ReadyActivate(SoftFaults)
  \/ OpenInterface(SoftFaults)
  \/ ToggleInterface(SoftFaults)
  \/ OpenInterfaceRender
  \/ ToggleInterfaceRender
  \/ LogOutButton
  \/ MenuLogout
  \/ MenuScene
  \/ GoBack

\* Every handler of the panel, with the faults loadLastEntries recovers
\* from at once (no watchdog is left pending).  One renderInterface call is
\* in flight at a time.
PanelSpec == Init /\ [][PanelNext]_vars

\* What can go wrong in a handler now.
HealFaults == IF sourceUp THEN {"none"} ELSE Faults

HealNext ==
  \/ Tick
  \/ IntervalFire(HealFaults)
  \/ WatchdogFire
  \/ ActorUpdated(HealFaults)
  \/ OnReady(HealFaults)
  \/ RenderTemplate(HealFaults)
  \/ RenderFinish(HealFaults)
  \/ ReadyActivate(HealFaults)
  \/ OpenInterface(HealFaults)
  \/ ToggleInterface(HealFaults)
  \/ SourceRecovers

\* The refresh machinery with a data source that recovers for good.  Time
\* passes when no timer is due, and a watchdog that is due fires; nothing
\* obliges a user or an actor hook to act.
HealSpec ==
  /\ Init
  /\ [][HealNext]_vars
  /\ WF_vars(Tick)
  /\ WF_vars(WatchdogFire)

\* The sequences of n different ids of S.
RECURSIVE DistinctSeqs(_, _)
DistinctSeqs(S, n) ==
  IF n = 0 THEN {<<>>}
  ELSE UNION {{Append(q, x) : x \in S \ {q[i] : i \in DOMAIN q}}
                : q \in DistinctSeqs(S, n - 1)}

Plain(ids) == [i \in DOMAIN ids |-> Actor(ids[i], "Agent", "", "", "")]

\* The folders of the data specification: up to MaxFolder of the actors of
\* OrderIds in any order, the five actors of CountIds in any order, one actor
\* of FlagPool.
DataFolders ==
  {Plain(ids) : ids \in UNION {DistinctSeqs(OrderIds, n) : n \in 0..MaxFolder}}
    \cup {Plain(ids) : ids \in DistinctSeqs(CountIds, Cardinality(CountIds))}
    \cup {<<a>> : a \in FlagPool}

DataInit ==
  /\ isLoadingEntries = FALSE
  /\ lastSuccessfulLoad = 0 - DEBOUNCE_MS
  /\ consecutiveErrors = 0
  /\ refreshIntervalId = Null
  /\ intervals = {}
  /\ timeouts = {}
  /\ listExists = FALSE
  /\ list = <<>>
  /\ container = "none"
  /\ interfaceActive = FALSE
  /\ isGM = FALSE
  /\ actors \in DataFolders
  /\ goBackButtons = 0
  /\ readyPc = "boot"
  /\ renderPc = "idle"
  /\ renderCaller = "ready"
  /\ sourceUp = TRUE
  /\ inFlightFor = 0
  /\ cadenceBefore = 0
  /\ lastEvent = "init"
  /\ loads = <<>>
  /\ NoMail

DataNext ==
  \/ Tick
  \/ IntervalFire({"none"})
  \/ ActorUpdated({"none"})
  \/ ActorDeleted({"none"})
  \/ OnReady({"none"})
  \/ RenderTemplate({"none"})
  \/ RenderFinish({"none"})
  \/ ReadyActivate({"none"})

\* A player's session in which nothing fails, over the folders of
\* DataFolders.
DataSpec == DataInit /\ [][DataNext]_vars

\* ------------------------------------------------------------ mail system
\* loadMessages keeps the last MAIL_LIMIT messages of the chat log.
MAIL_LIMIT == 50

\* The users of the game; the first is the GM.
Users ==
  <<[isGM |-> TRUE, name |-> "Gamemaster"],
    [isGM |-> FALSE, name |-> "ann"],
    [isGM |-> FALSE, name |-> "Bob"]>>

\* String.prototype.toUpperCase, on the names of Users.
ToUpperCase(name) ==
  CASE name = "Gamemaster" -> "GAMEMASTER"
    [] name = "ann" -> "ANN"
    [] name = "Bob" -> "BOB"
    [] OTHER -> name

\* The i-th message of the chat log; the users take turns.
HostMessage(i) ==
  [id |-> i, user |-> Users[(i % Len(Users)) + 1], content |-> i,
   timestamp |-> i]

\* game.messages.contents when the log holds n messages.
Contents(n) == [i \in 1..n |-> HostMessage(i)]

\* q.slice(-k)
SliceLast(q, k) == SubSeq(q, Max(1, Len(q) - k + 1), Len(q))

FormatSenderName(user) ==
  IF user.isGM THEN "HANDLER" ELSE ToUpperCase(user.name)

\* The entry loadMessages and renderChatMessage make of a chat message.
MailEntry(msg) ==
  [id |-> msg.id, sender |-> FormatSenderName(msg.user),
   content |-> msg.content, timestamp |-> msg.timestamp]

\* The mail system as a handler finds it.
CurMail ==
  [messages |-> messages, pushed |-> pushed, calls |-> <<>>, threw |-> FALSE]

\* #dg-messages-container is in the document: it comes with the template of
\* the interface.
MessagesContainer == container # "none"

\* displayMessages(): with messages to show it reads container[0].scrollHeight,
\* which throws when there is no #dg-messages-container.  The rows it writes
\* are not modelled.
DisplayMessages(m, present) ==
  IF m.messages = <<>> \/ present THEN m ELSE [m EXCEPT !.threw = TRUE]

\* loadMessages(), n: the number of messages of the chat log.
LoadMessages(m, n, present) ==
  LET chatMessages == SliceLast(Contents(n), MAIL_LIMIT)
  IN DisplayMessages(
       [m EXCEPT !.messages = [i \in DOMAIN chatMessages |->
                                 MailEntry(chatMessages[i])],
                 !.pushed = 0,
                 !.calls = Append(@, "loadMessages")], present)

\* handleChatMessage(): chatLog.processMessage hands the text to the host,
\* which creates the message later.
HandleChatMessage(m, n, present) ==
  LoadMessages([m EXCEPT !.calls = Append(@, "handleChatMessage")], n, present)

\* renderChatMessage(message)
RenderChatMessage(m, message, present) ==
  DisplayMessages(
    [m EXCEPT !.messages = Append(@, MailEntry(message)),
              !.pushed = @ + 1,
              !.calls = Append(@, "renderChatMessage")], present)

\* The callback of the hook chatMessage and what it returns.
ChatMessageCallback(m, active, n, present) ==
  IF active
  THEN LET r == HandleChatMessage(m, n, present)
       IN [ret |-> IF r.threw THEN "threw" ELSE "false", mail |-> r]
  ELSE [ret |-> "true", mail |-> m]

\* The callback of the hook renderChatMessage; it returns nothing.
RenderChatMessageCallback(m, active, message, present) ==
  IF active
  THEN LET r == RenderChatMessage(m, message, present)
       IN [ret |-> IF r.threw THEN "threw" ELSE "none", mail |-> r]
  ELSE [ret |-> "none", mail |-> m]

\* The chat hook or mail handler named ev ends with r.
MailCommit(r, ev) ==
  /\ r.mail.pushed <= MaxPush
  /\ messages' = r.mail.messages
  /\ pushed' = r.mail.pushed
  /\ mailCalls' = r.mail.calls
  /\ chatResult' = r.ret
  /\ mailEvent' = ev
  /\ UNCHANGED <<hostMessages, panelVars>>

\* The session may start with any of these numbers of chat messages.
StartCounts == {0, MAIL_LIMIT - 1}

\* The host creates a chat message: one of this user, sent by sendMessage
\* or by chatLog.processMessage, or one of another user.  At most MaxNew are
\* created in a session.
HostCreate ==
  /\ \E n0 \in StartCounts : hostMessages \in n0..(n0 + MaxNew - 1)
  /\ hostMessages' = hostMessages + 1
  /\ mailEvent' = "create"
  /\ mailCalls' = <<>>
  /\ chatResult' = "none"
  /\ UNCHANGED <<messages, pushed, panelVars>>

\* The user submits a chat message: the host calls the hook chatMessage,
\* which initHooks registered before onReady: at any stage of onReady.
ChatMessageHook ==
  /\ readyPc \in {"boot", "rendering", "activate", "done"}
  /\ MailCommit(ChatMessageCallback(CurMail, interfaceActive, hostMessages,
                                    MessagesContainer), "chatMessage")

\* The host renders a chat message, a new one or once more an old one, and
\* calls the hook renderChatMessage: here the first or the last of the log.
RenderChatMessageHook ==
  \E i \in {1, hostMessages} :
    /\ hostMessages > 0
    /\ MailCommit(RenderChatMessageCallback(CurMail, interfaceActive,
                                            HostMessage(i), MessagesContainer),
                  "renderChatMessage")

\* A click on the menu item 'mail'.
MenuMail ==
  /\ container = "visible"
  /\ MailCommit([ret |-> "none",
                 mail |-> LoadMessages(CurMail, hostMessages, MessagesContainer)],
                "menuMail")

MailInit ==
  /\ isLoadingEntries = FALSE
  /\ lastSuccessfulLoad = 0 - DEBOUNCE_MS
  /\ consecutiveErrors = 0
  /\ refreshIntervalId = Null
  /\ intervals = {}
  /\ timeouts = {}
  /\ listExists = FALSE
  /\ list = <<>>
  /\ container = "none"
  /\ interfaceActive \in BOOLEAN
  /\ isGM = TRUE
  /\ actors = <<>>
  /\ goBackButtons = 0
  /\ readyPc = "boot"
  /\ renderPc = "idle"
  /\ renderCaller = "ready"
  /\ sourceUp = TRUE
  /\ inFlightFor = 0
  /\ cadenceBefore = 0
  /\ lastEvent = "init"
  /\ loads = <<>>
  /\ hostMessages \in StartCounts
  /\ messages = <<>>
  /\ pushed = 0
  /\ mailEvent = "none"
  /\ mailCalls = <<>>
  /\ chatResult = "none"

MailNext ==
  \/ HostCreate
  \/ ChatMessageHook
  \/ RenderChatMessageHook
  \/ MenuMail
  \/ OnReady({"none"})
  \/ RenderTemplate({"none"})
  \/ RenderFinish({"none"})
  \/ ReadyActivate({"none"})
  \/ ToggleInterface({"none"})
  \/ LogOutButton

\* The chat hooks and the mail view in a session in which nothing fails and
\* no timer fires: the interface is rendered by onReady, then toggled and
\* logged out of.
MailSpec == MailInit /\ [][MailNext]_vars

\* ------------------------------------------------------------ properties
\* The calls of loadLastEntries in q that ran a load cycle.
Executed(q) ==
  Cardinality({i \in DOMAIN q : q[i] \in {"success", "failed", "threw"}})

Has(q, o) == \E i \in DOMAIN q : q[i] = o

\* r and s agree on what C1 names.
SameRefreshState(r, s) ==
  /\ r.isLoadingEntries = s.isLoadingEntries
  /\ r.lastSuccessfulLoad = s.lastSuccessfulLoad
  /\ r.consecutiveErrors = s.consecutiveErrors
  /\ r.refreshIntervalId = s.refreshIntervalId
  /\ r.intervals = s.intervals
  /\ r.timeouts = s.timeouts
  /\ r.listExists = s.listExists
  /\ r.list = s.list

\* C1 (single-flight): a load cycle is in progress exactly while its watchdog
\* is pending, and at most one is; a call of loadLastEntries made while
\* isLoadingEntries is true leaves isLoadingEntries, lastSuccessfulLoad,
\* consecutiveErrors, the recurring timer, the watchdog and the list as they
\* are, whatever would go wrong in it.
C1_SingleFlight ==
  /\ Cardinality(timeouts) <= 1
  /\ isLoadingEntries <=> timeouts # {}
  /\ isLoadingEntries =>
       \A f \in Faults : SameRefreshState(LoadLastEntries(Cur, f), Cur)

\* A handler has called loadLastEntries while a cycle was in flight.
C1_Witness == isLoadingEntries /\ Has(loads, "busy") /\ inFlightFor > 0

\* C2 (debounce, as claimed): of the calls of loadLastEntries made at one
\* instant (in one handler, or in two handlers with no time passing between
\* them) at most one runs a load cycle, whatever the outcome of the first.
C2_Debounce ==
  [][/\ Executed(loads') <= 1
     /\ ~(Executed(loads) >= 1 /\ Executed(loads') >= 1)]_vars

\* C3 (watchdog): a cycle left in flight has its watchdog pending, due
\* WATCHDOG_MS after the cycle started; only the watchdog ends it, and it
\* does so when the cycle has been in flight for WATCHDOG_MS, resetting
\* isLoadingEntries, adding exactly one to consecutiveErrors and leaving no
\* watchdog behind.
C3_Watchdog ==
  [][/\ isLoadingEntries' =>
          /\ inFlightFor' <= WATCHDOG_MS
          /\ \E t \in timeouts' : t.left = WATCHDOG_MS - inFlightFor'
     /\ (isLoadingEntries /\ ~isLoadingEntries') => lastEvent' = "watchdog"
     /\ lastEvent' = "watchdog" =>
          /\ isLoadingEntries
          /\ inFlightFor = WATCHDOG_MS
          /\ ~isLoadingEntries'
          /\ consecutiveErrors' = consecutiveErrors + 1
          /\ timeouts' = {}]_vars

\* The watchdog has ended a cycle.
C3_Witness ==
  lastEvent = "watchdog" /\ ~isLoadingEntries /\ consecutiveErrors > 0

\* C4 (degradation, as claimed): a handler in which a load cycle fails,
\* leaving consecutiveErrors above ERROR_THRESHOLD while the recurring timer
\* runs, leaves that timer at DEGRADED_MS.
C4_Degradation ==
  [][(/\ consecutiveErrors' > consecutiveErrors
      /\ consecutiveErrors' > ERROR_THRESHOLD
      /\ refreshIntervalId' # Null) => Cadence' = DEGRADED_MS]_vars

\* C5 (cadence recovery): a handler that finds the recurring timer at
\* DEGRADED_MS and in which a load cycle succeeds leaves the timer at
\* NORMAL_MS and consecutiveErrors at 0.
C5_CadenceRecovery ==
  (cadenceBefore = DEGRADED_MS /\ Has(loads, "success")) =>
    /\ Cadence = NORMAL_MS
    /\ consecutiveErrors = 0

\* A cycle has succeeded while the timer was degraded.
C5_Witness ==
  /\ cadenceBefore = DEGRADED_MS
  /\ Has(loads, "success")
  /\ Cadence = NORMAL_MS

\* The handlers that start the recurring timer.
StartEvents == {"openInterface", "toggleInterface", "renderFinish"}

\* C7 (stop during flight): while refreshIntervalId is null no handler but
\* an explicit start (openInterface, toggleInterface, renderInterface) arms
\* a recurring timer or sets refreshIntervalId: not the watchdog, not a
\* cycle that succeeds or fails.
C7_StopDuringFlight ==
  [][(refreshIntervalId = Null /\ lastEvent' \notin StartEvents) =>
       (refreshIntervalId' = Null /\ intervals' = intervals)]_vars

\* The watchdog has ended, above ERROR_THRESHOLD, a cycle during which the
\* timer was stopped.
C7_Witness ==
  /\ lastEvent = "watchdog"
  /\ cadenceBefore = 0
  /\ consecutiveErrors > ERROR_THRESHOLD
  /\ refreshIntervalId = Null
  /\ container = "hidden"

\* C8 (hidden panel, as claimed): when the LOG OUT button, the menu item
\* 'logout', toggleInterface or the switch to the active scene has hidden the
\* panel, no recurring timer is armed.
C8_HiddenStopsTimer ==
  (/\ lastEvent \in {"logOutButton", "menuLogout", "toggleInterface", "menuScene"}
   /\ container = "hidden") => (intervals = {} /\ refreshIntervalId = Null)

\* C9 (start is idempotent): at most one recurring timer is armed, and it is
\* the one refreshIntervalId names; none is armed when refreshIntervalId is
\* null.
C9_StartIdempotent ==
  /\ Cardinality(intervals) <= 1
  /\ {t.id : t \in intervals} =
       IF refreshIntervalId = Null THEN {} ELSE {refreshIntervalId}

\* openInterface has shown the panel, and run a load cycle, while a timer
\* was running.
C9_Witness ==
  /\ lastEvent = "openInterface"
  /\ cadenceBefore # 0
  /\ loads # <<>>
  /\ container = "visible"
  /\ Cardinality(intervals) = 1

\* C10 (stop is idempotent): after the LOG OUT button, and after
\* toggleInterface has hidden the panel, no recurring timer is armed and
\* refreshIntervalId is null, whether a timer was running or not; stopping
\* what is stopped changes nothing.
C10_StopIdempotent ==
  /\ (\/ lastEvent = "logOutButton"
      \/ (lastEvent = "toggleInterface" /\ container = "hidden"))
       => (refreshIntervalId = Null /\ intervals = {})
  /\ refreshIntervalId = Null => StopInterval(Cur) = Cur
  /\ StopInterval(StopInterval(Cur)) = StopInterval(Cur)

\* The LOG OUT button was clicked while no timer was running.
C10_Witness ==
  /\ lastEvent = "logOutButton"
  /\ cadenceBefore = 0
  /\ refreshIntervalId = Null
  /\ intervals = {}

\* C11 (two cadences): every armed recurring timer has an interval of
\* NORMAL_MS or DEGRADED_MS, is the one refreshIntervalId names and is due
\* within its interval; when it has fired it is due one full interval later.
C11_TwoCadences ==
  /\ \A t \in intervals :
       /\ t.ms \in {NORMAL_MS, DEGRADED_MS}
       /\ t.id = refreshIntervalId
       /\ t.left \in 0..t.ms
  /\ lastEvent = "interval" => \A t \in intervals : t.left = t.ms

\* The degraded timer has fired and stays degraded.
C11_Witness ==
  /\ lastEvent = "interval"
  /\ cadenceBefore = DEGRADED_MS
  /\ Cadence = DEGRADED_MS

\* The load cycles in q that failed in the catch block.
FailedIn(q) == Cardinality({i \in DOMAIN q : q[i] = "failed"})

\* C12 (failure kinds, as claimed): a handler in which a load cycle fails
\* (the data source or the renderer throws) or which is the watchdog leaves
\* isLoadingEntries false, has added one to consecutiveErrors for each
\* failure and leaves the list as the single error row.
C12_FailuresAlike ==
  [][(Has(loads', "failed") \/ lastEvent' = "watchdog") =>
       /\ consecutiveErrors' =
            consecutiveErrors + FailedIn(loads')
              + (IF lastEvent' = "watchdog" THEN 1 ELSE 0)
       /\ ~isLoadingEntries'
       /\ list' = <<ErrorRow>>]_vars

\* C13 (no exception, as claimed): no call of loadLastEntries ends with an
\* exception, whatever fails in it.
C13_NoException == ~Has(loads, "threw")

\* C14 (success): after a handler in which a load cycle succeeded no
\* watchdog is pending, isLoadingEntries is false, lastSuccessfulLoad is the
\* current time and consecutiveErrors is 0; with no actor to show the cycle
\* succeeds too and the list is the single "no entries" row.
C14_Success ==
  Has(loads, "success") =>
    /\ timeouts = {}
    /\ ~isLoadingEntries
    /\ lastSuccessfulLoad = Now
    /\ consecutiveErrors = 0
    /\ actors = <<>> => list = <<NoEntriesRow>>

\* A cycle with an empty result has succeeded.
C14_Witness ==
  /\ Has(loads, "success")
  /\ actors = <<>>
  /\ list = <<NoEntriesRow>>
  /\ consecutiveErrors = 0

\* The panel is shown and the interfaceActive flag is set.
PanelOn == container = "visible" /\ interfaceActive

\* A load cycle has just succeeded, with consecutiveErrors at 0 and the
\* recurring timer at NORMAL_MS.
Healed ==
  /\ Has(loads, "success")
  /\ consecutiveErrors = 0
  /\ Cadence = NORMAL_MS

C16_TimersCancelled ==
  /\ (Has(loads, "success") \/ Has(loads, "failed")) => timeouts = {}
  /\ (\/ lastEvent = "logOutButton"
      \/ (lastEvent = "toggleInterface" /\ container = "hidden"))
       => (intervals = {} /\ timeouts = {})

\* C17 (forceDisplayLastEntries, as claimed): called from a timeout with an
\* empty list it calls loadLastEntries; called with a non-empty list it
\* leaves the list as it is.
C17_ForceDisplay ==
  [][lastEvent' = "forceDisplay" =>
       /\ list = <<>> => loads' # <<>>
       /\ list # <<>> => list' = list]_vars

\* What forceDisplayLastEntries requires before it looks at the list: the
\* flag 'interfaceActive' and the LAST ENTRIES section of the container.
ForceDisplayReady == interfaceActive /\ container # "none"

\* C17 (forceDisplayLastEntries, amended): called from a timeout while the
\* interface is active and the container exists, it calls loadLastEntries if
\* the list is empty (creating the list first if it is missing), and
\* otherwise calls nothing and leaves the list as it is; called while the
\* interface is inactive or the container is missing, it calls nothing and
\* leaves the list as it is, empty or not.
C17_ForceDisplayActive ==
  [][lastEvent' = "forceDisplay" =>
       /\ (ForceDisplayReady /\ list = <<>>) => (loads' # <<>> /\ listExists')
       /\ (ForceDisplayReady /\ list # <<>>) => (loads' = <<>> /\ list' = list)
       /\ ~ForceDisplayReady =>
            (loads' = <<>> /\ list' = list /\ listExists' = listExists)]_vars

\* forceDisplayLastEntries has found the list empty and filled it.
C17_Witness ==
  /\ lastEvent = "forceDisplay"
  /\ Has(loads, "success")
  /\ ForceDisplayReady
  /\ Len(list) > 0

\* C18 (no synchronous retry, as claimed): in one handler no load cycle
\* starts after a load cycle of that handler has failed.
C18_NoSyncRetry ==
  \A i, j \in DOMAIN loads :
    (i < j /\ loads[i] = "failed") => loads[j] \notin {"success", "failed", "threw"}

\* The number of actors of as that the order of the claim puts before as[i].
Rank(as, i) ==
  Cardinality({j \in DOMAIN as :
                 \/ IdNum(as[j].id) > IdNum(as[i].id)
                 \/ (IdNum(as[j].id) = IdNum(as[i].id) /\ j < i)})

\* The k-th actor of as in that order.
Ranked(as, k) == as[CHOOSE i \in DOMAIN as : Rank(as, i) = k - 1]

\* C19 (ordering): after a load cycle that succeeds on a folder that is not
\* empty the list has min(MAX_ENTRIES, n) rows, and its k-th row is the
\* actor that has k - 1 actors before it when the folder is sorted
\* descending by the integer its digits form (0 without a digit), actors
\* with the same integer in their order in the folder; 'actor-9',
\* 'actor-123', 'actor-45' give 'actor-123', 'actor-45', 'actor-9', and the
\* ids 1 to 5, in any order, give 5, 4, 3.
C19_Ordering ==
  (Has(loads, "success") /\ actors # <<>>) =>
    /\ Len(list) = Min(MAX_ENTRIES, Len(actors))
    /\ \A k \in DOMAIN list : list[k].id = Ranked(actors, k).id
    /\ RowIds(actors) = <<<<"a", "9">>, <<"a", "1", "2", "3">>, <<"a", "4", "5">>>>
         => RowIds(list) = <<<<"a", "1", "2", "3">>, <<"a", "4", "5">>, <<"a", "9">>>>
    /\ {actors[i].id : i \in DOMAIN actors} = CountIds
         => RowIds(list) = <<<<"5">>, <<"4">>, <<"3">>>>

\* A folder of more than MAX_ENTRIES actors was loaded, and two of the rows
\* hold the same integer.
C19_Witness ==
  /\ Has(loads, "success")
  /\ Len(actors) > MAX_ENTRIES
  /\ Len(list) = MAX_ENTRIES
  /\ \E k \in 1..(Len(list) - 1) :
       /\ list[k].kind = "entry"
       /\ IdNum(list[k].id) = IdNum(list[k + 1].id)

\* "REFERENCE - FIRSTNAME MIDDLENAME"
Pattern(reference, a) == <<reference, " - ", a.firstName, " ", a.middleName>>

\* C20 (display label, as claimed): after a load cycle that succeeds, the
\* label of every row is "REFERENCE - FIRSTNAME MIDDLENAME" if the surname of
\* its actor is set, and the name of the actor otherwise.
C20_Label ==
  (Has(loads, "success") /\ actors # <<>>) =>
    \A k \in DOMAIN list :
      LET a == Ranked(actors, k)
      IN list[k].label = IF a.surname # "" THEN Pattern(a.surname, a)
                         ELSE <<a.name>>

\* C20 (display label, amended): after a load cycle that succeeds, the label
\* of every row is the name of its actor if the firstName is not set and the
\* surname is not set or is 'UNKNOWN'; otherwise it is "REFERENCE - FIRSTNAME
\* MIDDLENAME", where REFERENCE is the surname, or 'UNKNOWN' if the surname
\* is not set, and a firstName or middleName that is not set is empty.
C20_LabelByFlags ==
  (Has(loads, "success") /\ actors # <<>>) =>
    \A k \in DOMAIN list :
      LET a == Ranked(actors, k)
      IN /\ list[k].kind = "entry"
         /\ (a.firstName = "" /\ a.surname \in {"", "UNKNOWN"})
              => list[k].label = <<a.name>>
         /\ (a.firstName # "" /\ a.surname = "")
              => list[k].label = Pattern("UNKNOWN", a)
         /\ (a.surname # "" /\ ~(a.firstName = "" /\ a.surname = "UNKNOWN"))
              => list[k].label = Pattern(a.surname, a)

\* An actor with a firstName and no surname was rendered.
C20_Witness ==
  /\ Has(loads, "success")
  /\ Len(actors) = 1
  /\ actors[1].surname = ""
  /\ actors[1].firstName = "JOHN"
  /\ Len(list) = 1
  /\ list[1].label = <<"UNKNOWN", " - ", "JOHN", " ", actors[1].middleName>>

\* C21 (never empty, as claimed): a load cycle that finds no actor in the
\* folder PC Records leaves exactly the row 'No recent entries found', and
\* after a handler in which a load cycle ended (in success, in failure, or by
\* its watchdog) the list is not empty.
C21_NeverEmpty ==
  /\ (Has(loads, "success") /\ actors = <<>>) => list = <<NoEntriesRow>>
  /\ (Has(loads, "success") \/ Has(loads, "failed") \/ lastEvent = "watchdog")
       => list # <<>>

\* State s once DEBOUNCE_MS have passed and loadLastEntries is called again,
\* nothing failing.
NextCycle(s) ==
  LoadLastEntries([s EXCEPT !.lastSuccessfulLoad = Min(@, Now - DEBOUNCE_MS),
                            !.loads = <<>>], "none")

\* C22 (idempotent render): when a handler has run a load cycle that
\* succeeded, the next load cycle over the same actors succeeds too and
\* leaves the list as the first left it: the same rows, in the same order,
\* with the same labels.
C22_IdempotentRender ==
  Has(loads, "success") =>
    /\ NextCycle(Cur).loads = <<"success">>
    /\ NextCycle(Cur).list = list
    /\ NextCycle(Cur).listExists

\* The folder still holds its five actors, so the updateActor hook has run
\* the second successful cycle over them, after the one of renderInterface.
C22_Witness ==
  /\ lastEvent = "updateActor"
  /\ Has(loads, "success")
  /\ {actors[i].id : i \in DOMAIN actors} = CountIds
  /\ Len(list) = MAX_ENTRIES
  /\ NextCycle(Cur).list = list

\* C23 (click handlers): after a load cycle that succeeds on a folder that
\* is not empty every row of the list is the row of an actor and has exactly
\* one click handler; no row of the list ever has more than one, and the
\* rows without a data-actor-id have none.
C23_OneClickHandler ==
  /\ (Has(loads, "success") /\ actors # <<>>) =>
       \A k \in DOMAIN list : list[k].kind = "entry" /\ list[k].handlers = 1
  /\ \A k \in DOMAIN list :
       list[k].handlers = IF list[k].kind = "entry" THEN 1 ELSE 0

\* The recurring timer has rendered again the rows of the five actors the
\* folder had from the start.
C23_Witness ==
  /\ lastEvent = "interval"
  /\ Has(loads, "success")
  /\ {actors[i].id : i \in DOMAIN actors} = CountIds
  /\ Len(list) = MAX_ENTRIES
  /\ \A k \in DOMAIN list : list[k].handlers = 1

\* The handlers that call loadLastEntries: the recurring timer, the actor
\* hooks and their timeouts, forceDisplayLastEntries from a timeout, onReady
\* and its timeout, renderInterface, openInterface and toggleInterface.
LoadEvents ==
  {"interval", "createActor", "updateActor", "deleteActor", "hookLater",
   "forceDisplay", "onReady", "readyActivate", "renderFinish", "renderFailed",
   "openInterface", "toggleInterface"}

\* C24 (no path bypasses the guards): whatever handler calls
\* loadLastEntries, every call it makes while a cycle is in flight is skipped
\* for that reason, and every call it makes less than DEBOUNCE_MS after the
\* last successful load is skipped for that one; this includes the calls a
\* handler makes after a cycle of its own has succeeded or stayed in flight.
C24_GuardsOnEveryPath ==
  [][/\ loads' # <<>> => lastEvent' \in LoadEvents
     /\ isLoadingEntries => \A i \in DOMAIN loads' : loads'[i] = "busy"
     /\ (~isLoadingEntries /\ Now - lastSuccessfulLoad < DEBOUNCE_MS)
          => \A i \in DOMAIN loads' : loads'[i] = "debounced"
     /\ \A i, j \in DOMAIN loads' :
          /\ (i < j /\ loads'[i] = "success") => loads'[j] = "debounced"
          /\ (i < j /\ loads'[i] = "threw") => loads'[j] = "busy"]_vars

\* forceDisplayLastEntries, from a timeout, has called loadLastEntries while
\* a cycle was in flight.
C24_Witness ==
  /\ lastEvent = "forceDisplay"
  /\ loads = <<"busy">>
  /\ isLoadingEntries

\* C25 (recreated on re-display, as claimed): when openInterface or
\* toggleInterface has shown the panel that was hidden, and no load cycle
\* has failed in it, the recurring timer runs at NORMAL_MS, consecutiveErrors
\* is 0 and isLoadingEntries is false.
C25_RecreatedOnShow ==
  [][(/\ lastEvent' \in {"openInterface", "toggleInterface"}
      /\ container = "hidden"
      /\ container' = "visible"
      /\ ~Has(loads', "failed")
      /\ ~Has(loads', "threw"))
       => (/\ Cadence' = NORMAL_MS
           /\ consecutiveErrors' = 0
           /\ ~isLoadingEntries')]_vars

\* C26 (no stuck loading flag): between handlers isLoadingEntries is true
\* only while the watchdog set by the cycle in flight is pending, due
\* WATCHDOG_MS after the cycle started; and in every behaviour in which time
\* keeps passing, isLoadingEntries true leads to isLoadingEntries false.
C26_NoStuckFlag ==
  /\ [](isLoadingEntries =>
          /\ inFlightFor <= WATCHDOG_MS
          /\ timeouts = {[id |-> 1, left |-> WATCHDOG_MS - inFlightFor]})
  /\ []<><<Tick>>_vars => (isLoadingEntries ~> ~isLoadingEntries)

\* After the data source has recovered, the watchdog has ended the cycle
\* that was in flight, and no watchdog is left.
C26_Witness ==
  /\ lastEvent = "watchdog"
  /\ sourceUp
  /\ ~isLoadingEntries
  /\ timeouts = {}

\* C27 (timer while active, as claimed): whenever the panel is visible and
\* the interface is flagged active, and no renderInterface call is under
\* way, refreshIntervalId is not null and a recurring timer is armed.
C27_ActiveHasTimer ==
  (PanelOn /\ renderPc = "idle")
    => (refreshIntervalId # Null /\ intervals # {})

\* C28 (degraded only above the threshold): while a recurring timer with an
\* interval of DEGRADED_MS is armed, consecutiveErrors is greater than
\* ERROR_THRESHOLD.
C28_DegradedOnlyAboveThreshold ==
  \A t \in intervals : t.ms = DEGRADED_MS => consecutiveErrors > ERROR_THRESHOLD

\* The watchdog has just slowed the timer down.
C28_Witness ==
  /\ lastEvent = "watchdog"
  /\ cadenceBefore = NORMAL_MS
  /\ Cadence = DEGRADED_MS
  /\ consecutiveErrors > ERROR_THRESHOLD

\* C29 (ticks of an inactive interface): a tick of the recurring timer calls
\* loadLastEntries only if the interface is flagged active; a tick while it
\* is not leaves isLoadingEntries, lastSuccessfulLoad, consecutiveErrors,
\* refreshIntervalId, the interval of the timer, the watchdog and the list
\* as they are.
C29_InactiveTick ==
  [][lastEvent' = "interval" =>
       /\ loads' # <<>> => interfaceActive
       /\ ~interfaceActive =>
            /\ loads' = <<>>
            /\ isLoadingEntries' = isLoadingEntries
            /\ lastSuccessfulLoad' = lastSuccessfulLoad
            /\ consecutiveErrors' = consecutiveErrors
            /\ refreshIntervalId' = refreshIntervalId
            /\ Cadence' = Cadence
            /\ timeouts' = timeouts
            /\ listExists' = listExists
            /\ list' = list]_vars

\* The recurring timer has fired while the panel was hidden and the
\* interface inactive, long enough after the last successful load.
C29_Witness ==
  /\ lastEvent = "interval"
  /\ ~interfaceActive
  /\ container = "hidden"
  /\ loads = <<>>
  /\ ~isLoadingEntries
  /\ Now - lastSuccessfulLoad >= DEBOUNCE_MS

\* C30 (ticks are never debounced): every armed recurring timer is due no
\* sooner than DEBOUNCE_MS after the last successful load, so a tick fires at
\* least DEBOUNCE_MS after it and the call of loadLastEntries it makes is
\* never skipped as too frequent.
C30_TickNeverDebounced ==
  /\ [](\A t \in intervals : t.left + (Now - lastSuccessfulLoad) >= DEBOUNCE_MS)
  /\ [][lastEvent' = "interval" =>
          /\ Now - lastSuccessfulLoad >= DEBOUNCE_MS
          /\ (loads' # <<>> => loads'[1] # "debounced")]_vars

\* A tick of the timer at NORMAL_MS has run a load cycle that succeeded.
C30_Witness ==
  /\ lastEvent = "interval"
  /\ cadenceBefore = NORMAL_MS
  /\ interfaceActive
  /\ loads # <<>>
  /\ loads[1] = "success"
  /\ \A t \in intervals : t.left = NORMAL_MS

\* The state with the list and the LAST ENTRIES section gone.
WithoutList(s) ==
  [s EXCEPT !.listExists = FALSE, !.list = <<>>, !.container = "none",
            !.loads = <<>>]

\* C31 (no list): a load cycle ends for want of a list only when there is no
\* list and no container to create one in, and then no cycle of the handler
\* succeeds or fails; when an actor hook has run such a cycle no watchdog is
\* pending, isLoadingEntries is false, and lastSuccessfulLoad,
\* consecutiveErrors, refreshIntervalId and the recurring timer are as they
\* were, whatever else would have gone wrong in the cycle.  The same holds
\* of a cycle run without a list in any state of the refresh machinery.
C31_NoList ==
  /\ [](\A f \in Faults :
          LET r == LoadLastEntries(WithoutList(Cur), f)
          IN r.loads = <<"nolist">> =>
               (SameRefreshState(r, WithoutList(Cur)) /\ ~r.isLoadingEntries))
  /\ [][Has(loads', "nolist") =>
       /\ ~listExists /\ container = "none"
       /\ ~listExists' /\ list' = <<>>
       /\ \A i \in DOMAIN loads' : loads'[i] = "nolist"
       /\ lastEvent' \in {"createActor", "updateActor", "deleteActor"} =>
            /\ timeouts' = {}
            /\ ~isLoadingEntries'
            /\ lastSuccessfulLoad' = lastSuccessfulLoad
            /\ consecutiveErrors' = consecutiveErrors
            /\ refreshIntervalId' = refreshIntervalId
            /\ intervals' = intervals]_vars

\* The updateActor hook has called loadLastEntries before the panel was
\* rendered.
C31_Witness ==
  /\ lastEvent = "updateActor"
  /\ loads = <<"nolist">>
  /\ container = "none"
  /\ ~isLoadingEntries
  /\ timeouts = {}

\* C32 (chat hook): when the hook chatMessage has run for a submitted
\* message, it has returned false and called MailSystem.handleChatMessage if
\* the interface is flagged active, and has returned true and called nothing
\* of the mail system if it is not.
C32_ChatHook ==
  mailEvent = "chatMessage" =>
    IF interfaceActive
    THEN chatResult = "false" /\ Has(mailCalls, "handleChatMessage")
    ELSE chatResult = "true" /\ mailCalls = <<>>

\* loadMessages has just run, called by the menu or by handleChatMessage.
AfterLoadMessages ==
  /\ mailEvent \in {"menuMail", "chatMessage"}
  /\ Has(mailCalls, "loadMessages")

\* C33 (mail list): no two entries of MailSystem.messages have the same id,
\* and right after loadMessages the entries are the last min(50, n) messages
\* of the chat log, in the order of the log.
C33_MailList ==
  /\ \A i, j \in DOMAIN messages : i # j => messages[i].id # messages[j].id
  /\ AfterLoadMessages =>
       /\ Len(messages) = Min(MAIL_LIMIT, hostMessages)
       /\ \A k \in DOMAIN messages :
            messages[k] = MailEntry(HostMessage(hostMessages - Len(messages) + k))

====
